---- MODULE Spec2Model ----
(***************************************************************************)
(* Model of governance-alerts-cosmos: the monitoring service               *)
(* (internal/governance/governance.go, package service), the proposal      *)
(* client (same file, package governance) and the notifier                 *)
(* (internal/notifications/notifications.go).                              *)
(*                                                                         *)
(* Time is counted in units of 1/UnitsPerHour hour.  Go compares           *)
(* time.Duration.Hours() (a float64) against the configured number of      *)
(* hours; the model compares the exact rational value, which is the same   *)
(* for every duration and threshold the bounds below can produce.          *)
(***************************************************************************)
EXTENDS Integers, Sequences, FiniteSets, TLC

\* ------------------------------------------------------------------ bounds
MaxNetworks  == 2   \* configured networks
MaxProps     == 2   \* proposals in one response of the endpoint
MaxHours     == 2   \* largest hours_before_start / hours_before_end
MaxNow       == 6   \* largest reading of the wall clock
MaxCycles    == 2   \* evaluation cycles the ticker is allowed to cause
MaxStopCalls == 2   \* calls of Service.Stop
MaxStatus    == 599 \* largest status code a webhook answers with
UnitsPerHour == 2   \* clock resolution: units per hour

\* --------------------------------------------------------------- constants
ServiceName    == "Governance Alerts"
ServiceChainID == "Service"
VotingPeriod   == "PROPOSAL_STATUS_VOTING_PERIOD"
NetworkNames   == <<"Babylon Mainnet", "ZetaChain Mainnet", "Cosmos Hub", "Osmosis">>
ChainIDs       == <<"bbn-1", "zetachain_7000-1", "cosmoshub-4", "osmosis-1">>

NetKeys == 1..MaxNetworks
Clock   == 0..MaxNow
\* Two readings of the clock: one with the modelled boundaries about three
\* units ahead or less, one with all of them passed.
LoopClock == {MaxNow - 3, MaxNow}
Outcome == {"ok", "fail"}

\* ------------------------------------------------------------ configuration
\* types.NetworkConfig: the display name is any non-empty string, so it may
\* also be the string the service uses for its own messages.
NetworkConfig(k) ==
    [Name : {NetworkNames[k], ServiceName}, ChainID : {ChainIDs[k]}]

\* config.validateConfig: the conditions LoadConfig checks before main
\* builds the service, for the fields the model keeps (the polling interval
\* and the endpoints are not modelled).
validateConfig(c) ==
    /\ c.HoursBeforeStart > 0
    /\ c.HoursBeforeEnd > 0
    /\ DOMAIN c.Networks # {}
    /\ \A k \in DOMAIN c.Networks :
          /\ c.Networks[k].Name # ""
          /\ c.Networks[k].ChainID # ""

\* types.Config as far as the service reads it; Networks maps a configuration
\* key to that network's configuration, and may be empty.  Thresholds are in
\* 1..MaxHours.
AnyConfigs ==
    [Networks         : UNION {{f \in [ks -> UNION {NetworkConfig(k) : k \in ks}] :
                                  \A k \in ks : f[k] \in NetworkConfig(k)}
                              : ks \in SUBSET NetKeys},
     HoursBeforeStart : 1..MaxHours,
     HoursBeforeEnd   : 1..MaxHours,
     NotifyOnStartup  : BOOLEAN,
     Telegram         : BOOLEAN,
     Slack            : BOOLEAN]

\* The configurations config.LoadConfig lets through: the program started
\* from the command line runs with one of these.
Configs == {c \in AnyConfigs : validateConfig(c)}

\* ---------------------------------------------------------- proposal client
\* A timestamp string of the response is <<"rfc3339", t>>, a well-formed
\* RFC3339 text denoting instant t, or <<"bad", 0>>, a text time.Parse rejects.
\* time.Parse(time.RFC3339, s)
ParseTime(s) ==
    IF s[1] = "rfc3339" THEN [ok |-> TRUE, t |-> s[2]] ELSE [ok |-> FALSE, t |-> 0]

Digits == {"0", "1", "2", "3", "4", "5", "6", "7", "8", "9"}

DigitValue(c) ==
    CASE c = "0" -> 0 [] c = "1" -> 1 [] c = "2" -> 2 [] c = "3" -> 3 [] c = "4" -> 4
      [] c = "5" -> 5 [] c = "6" -> 6 [] c = "7" -> 7 [] c = "8" -> 8 [] c = "9" -> 9

RECURSIVE SkipSpace(_)
SkipSpace(s) ==
    IF s # <<>> /\ Head(s) = " " THEN SkipSpace(Tail(s)) ELSE s

\* fmt's scanNumber: the longest prefix made of digits and underscores.
RECURSIVE ScanNumber(_)
ScanNumber(s) ==
    IF s # <<>> /\ Head(s) \in Digits \cup {"_"}
    THEN <<Head(s)>> \o ScanNumber(Tail(s))
    ELSE <<>>

RECURSIVE ParseUint(_, _)
ParseUint(tok, acc) ==
    IF tok = <<>> THEN acc ELSE ParseUint(Tail(tok), 10 * acc + DigitValue(Head(tok)))

\* fmt.Sscanf(id, "%d", &proposalID) with proposalID a uint64: leading
\* blanks are skipped, the number token is read, what follows it is left
\* unread, and strconv.ParseUint rejects a token with an underscore.
Sscanf(id) ==
    LET tok == ScanNumber(SkipSpace(id))
    IN  IF tok = <<>> \/ \E i \in 1..Len(tok) : tok[i] = "_"
        THEN [ok |-> FALSE, v |-> 0]
        ELSE [ok |-> TRUE, v |-> ParseUint(tok, 0)]

RawProposal(id, status, vs, ve) ==
    [ID |-> id, Status |-> status, VotingStart |-> vs, VotingEnd |-> ve]

WellFormed(id, vs, ve) ==
    RawProposal(id, VotingPeriod, <<"rfc3339", vs>>, <<"rfc3339", ve>>)

\* What the endpoints answer with while whole cycles are examined: two
\* well-formed proposals in the voting period (the second with its start
\* after its end) and one with a non-numeric id.
CycleProposals ==
    {WellFormed(<<"1">>, MaxNow - 2, MaxNow - 1),
     WellFormed(<<"2">>, MaxNow - 1, MaxNow - 2),
     WellFormed(<<"x">>, MaxNow - 2, MaxNow - 1)}

\* What they answer with while the life cycle of Run is examined.
LifeProposals ==
    {WellFormed(<<"1">>, MaxNow - 2, MaxNow - 1), WellFormed(<<"x">>, MaxNow - 2, MaxNow - 1)}

\* What they answer with while the thresholds are examined: every pair of
\* boundaries in MaxNow - 3 .. MaxNow - 1.
EvalProposals ==
    {WellFormed(<<"1">>, vs, ve) : vs \in (MaxNow - 3)..(MaxNow - 1),
                                   ve \in (MaxNow - 3)..(MaxNow - 1)}

\* What the endpoint answers with while the filter of the client is
\* examined: two well-formed proposals in the voting period, one that has
\* passed, and voting-period proposals with a start that does not parse, an
\* end that does not parse, an id without a digit and an id with a letter
\* after its digit.
FetchProposals ==
    {WellFormed(<<"1">>, MaxNow - 2, MaxNow - 1),
     WellFormed(<<"2">>, MaxNow - 2, MaxNow - 1),
     RawProposal(<<"7">>, "PROPOSAL_STATUS_PASSED", <<"rfc3339", MaxNow - 2>>,
                 <<"rfc3339", MaxNow - 1>>),
     RawProposal(<<"3">>, VotingPeriod, <<"bad", 0>>, <<"rfc3339", MaxNow - 1>>),
     RawProposal(<<"4">>, VotingPeriod, <<"rfc3339", MaxNow - 2>>, <<"bad", 0>>),
     WellFormed(<<"x">>, MaxNow - 2, MaxNow - 1),
     WellFormed(<<"5", "x">>, MaxNow - 2, MaxNow - 1)}

\* What the first network's endpoint answers with while a network with
\* nothing to vote on is examined: a proposal in the voting period, one that
\* has passed and one in its deposit period, all with both boundaries
\* inside the thresholds.
QuietProposals ==
    {WellFormed(<<"1">>, MaxNow - 2, MaxNow - 1),
     RawProposal(<<"7">>, "PROPOSAL_STATUS_PASSED", <<"rfc3339", MaxNow - 2>>,
                 <<"rfc3339", MaxNow - 1>>),
     RawProposal(<<"8">>, "PROPOSAL_STATUS_DEPOSIT_PERIOD", <<"rfc3339", MaxNow - 2>>,
                 <<"rfc3339", MaxNow - 1>>)}

\* The answers of one request over a set of proposals: a failure, or a
\* first page of at most n of them.
ResponsesOf(raws, n) ==
    {<<"error">>} \cup {<<"ok", b>> : b \in UNION {[1..m -> raws] : m \in 0..n}}

\* The status test taking every proposal that is not rejected.
InVotingPeriodOrLater(r) == r.Status # "PROPOSAL_STATUS_REJECTED"

\* proposal.Status == "PROPOSAL_STATUS_VOTING_PERIOD"
InVotingPeriod(r) == r.Status = VotingPeriod

\* The loop of Client.GetVotingProposals over response.Proposals: keeps the
\* proposals in the voting period whose two timestamps and id parse, in
\* source order.  (Title and description are not modelled.)
RECURSIVE FilterProposals(_, _)
FilterProposals(raw, name) ==
    IF raw = <<>> THEN <<>>
    ELSE LET r    == Head(raw)
             rest == FilterProposals(Tail(raw), name)
             vs   == ParseTime(r.VotingStart)
             ve   == ParseTime(r.VotingEnd)
             id   == Sscanf(r.ID)
         IN  IF ~InVotingPeriod(r) THEN rest
             ELSE IF vs.ok /\ ve.ok /\ id.ok
             THEN <<[ID |-> id.v, Status |-> r.Status, VotingStart |-> vs.t,
                     VotingEnd |-> ve.t, Network |-> name]>> \o rest
             ELSE rest

\* GetVotingProposals reporting an error when nothing is in the voting period.
GetVotingProposalsEmptyIsError(netCfg, resp) ==
    IF resp[1] = "error" \/ FilterProposals(resp[2], netCfg.Name) = <<>>
    THEN [err |-> TRUE, proposals |-> <<>>]
    ELSE [err |-> FALSE, proposals |-> FilterProposals(resp[2], netCfg.Name)]

\* Client.GetVotingProposals: resp is <<"error">> when the request or the
\* decoding of the body fails, <<"ok", proposals>> otherwise.
GetVotingProposals(netCfg, resp) ==
    IF resp[1] = "error"
    THEN [err |-> TRUE, proposals |-> <<>>]
    ELSE [err |-> FALSE, proposals |-> FilterProposals(resp[2], netCfg.Name)]

\* ------------------------------------------------------------------ notifier
\* SendNotification giving up at the first channel that fails.
SendNotificationShortCircuit(n, tg, sl) ==
    LET tgTried == n.Telegram
        errors1 == IF tgTried /\ tg = "fail" THEN <<"telegram">> ELSE <<>>
        slTried == n.Slack /\ errors1 = <<>>
        errors2 == IF slTried /\ sl = "fail" THEN errors1 \o <<"slack">> ELSE errors1
    IN  [attempts |-> [telegram |-> IF tgTried THEN 1 ELSE 0,
                       slack    |-> IF slTried THEN 1 ELSE 0],
         failed   |-> {errors2[i] : i \in 1..Len(errors2)},
         err      |-> IF Len(errors2) > 0 THEN errors2[1] ELSE "nil"]

\* SendNotification returning the last error it collected.
SendNotificationLastError(n, tg, sl) ==
    LET tgTried == n.Telegram
        errors1 == IF tgTried /\ tg = "fail" THEN <<"telegram">> ELSE <<>>
        slTried == n.Slack
        errors2 == IF slTried /\ sl = "fail" THEN errors1 \o <<"slack">> ELSE errors1
    IN  [attempts |-> [telegram |-> IF tgTried THEN 1 ELSE 0,
                       slack    |-> IF slTried THEN 1 ELSE 0],
         failed   |-> {errors2[i] : i \in 1..Len(errors2)},
         err      |-> IF Len(errors2) > 0 THEN errors2[Len(errors2)] ELSE "nil"]

\* SendNotification reporting an error when it has no channel to send on.
SendNotificationNeedsChannel(n, tg, sl) ==
    LET tgTried == n.Telegram
        errors1 == IF tgTried /\ tg = "fail" THEN <<"telegram">> ELSE <<>>
        slTried == n.Slack
        errors2 == IF slTried /\ sl = "fail" THEN errors1 \o <<"slack">> ELSE errors1
    IN  [attempts |-> [telegram |-> IF tgTried THEN 1 ELSE 0,
                       slack    |-> IF slTried THEN 1 ELSE 0],
         failed   |-> {errors2[i] : i \in 1..Len(errors2)},
         err      |-> IF Len(errors2) > 0 THEN errors2[1]
                      ELSE IF ~tgTried /\ ~slTried THEN "no channel" ELSE "nil"]

\* Notifier.SendNotification for a notifier with the given channels enabled;
\* tg and sl are the outcomes the two transports would give.  errors is the
\* slice the code collects; attempts counts the calls of each channel's send.
SendNotification(n, tg, sl) ==
    LET tgTried == n.Telegram
        errors1 == IF tgTried /\ tg = "fail" THEN <<"telegram">> ELSE <<>>
        slTried == n.Slack
        errors2 == IF slTried /\ sl = "fail" THEN errors1 \o <<"slack">> ELSE errors1
    IN  [attempts |-> [telegram |-> IF tgTried THEN 1 ELSE 0,
                       slack    |-> IF slTried THEN 1 ELSE 0],
         failed   |-> {errors2[i] : i \in 1..Len(errors2)},
         err      |-> IF Len(errors2) > 0 THEN errors2[1] ELSE "nil"]

StatusOK == 200

\* What http.Post to the webhook gives: a transport error, or a response
\* with a status code.
SlackResponses == {<<"error">>} \cup {<<"status", code>> : code \in 100..MaxStatus}

\* Notifier.sendSlackNotification, from the answer of http.Post on: "nil"
\* or the error it returns.
sendSlackNotification(resp) ==
    IF resp[1] = "error" THEN "failed to send request"
    ELSE IF resp[2] # StatusOK THEN "unexpected status code"
    ELSE "nil"

\* ------------------------------------------------------------------- service
\* The threshold test with a strict upper bound.
WithinHoursStrict(d, h) == d < h * UnitsPerHour /\ d > 0

\* hoursUntil <= float64(h) && hoursUntil > 0 for a duration d
WithinHours(d, h) == d <= h * UnitsPerHour /\ d > 0

\* The message built with the chain id of the first network of the list.
ProposalMessageFirstChain(kind, p, netCfg) ==
    [Kind |-> kind, Network |-> p.Network, ChainID |-> ChainIDs[1], ProposalID |-> p.ID]

\* types.NotificationMessage as checkProposal builds it for proposal p of the
\* network configured as netCfg.
ProposalMessage(kind, p, netCfg) ==
    [Kind |-> kind, Network |-> p.Network, ChainID |-> netCfg.ChainID, ProposalID |-> p.ID]

\* Service.checkProposal at clock reading now; o gives the transports'
\* outcomes for the start and for the end message.  The result lists the
\* messages handed to the notifier with what SendNotification did.
checkProposal(c, p, netCfg, now, o) ==
    LET startDue == p.VotingStart > now /\ WithinHours(p.VotingStart - now, c.HoursBeforeStart)
        endDue   == p.VotingEnd > now /\ WithinHours(p.VotingEnd - now, c.HoursBeforeEnd)
        r1       == SendNotification(c, o.start[1], o.start[2])
        r2       == SendNotification(c, o.end[1], o.end[2])
        s1       == IF startDue
                    THEN <<[msg |-> ProposalMessage("start", p, netCfg), res |-> r1]>>
                    ELSE <<>>
        s2       == IF endDue
                    THEN <<[msg |-> ProposalMessage("end", p, netCfg), res |-> r2]>>
                    ELSE <<>>
    IN  IF startDue /\ r1.err # "nil"
        THEN [sent |-> s1, err |-> "start"]
        ELSE [sent |-> s1 \o s2, err |-> IF endDue /\ r2.err # "nil" THEN "end" ELSE "nil"]

\* Service.sendStartupNotification: indexing networks[0] faults when no
\* network is configured.
sendStartupNotification(c, tg, sl) ==
    IF DOMAIN c.Networks = {}
    THEN [panic |-> TRUE, sent |-> <<>>]
    ELSE [panic |-> FALSE,
          sent  |-> <<[msg |-> [Kind |-> "startup", Network |-> ServiceName,
                                ChainID |-> ServiceChainID, ProposalID |-> 0],
                       res |-> SendNotification(c, tg, sl)]>>]

\* --------------------------------------------------------------------- state
VARIABLES
    config,        \* the configuration the service was built from
    endpoint,      \* the endpoint's answer where it is the same for the whole run
    slackLog,      \* the last call of sendSlackNotification: the answer and the error
    pc,            \* where Run is: idle, initial, cycle, select, returned
    runResult,     \* what Run returned: none, nil, ctxErr
    ctxCancelled,  \* the context given to Run is cancelled
    stopChan,      \* s.stopChan: open or closed
    stopCalls,     \* calls of Stop so far
    mainPc,        \* where main's run is: wait, stopped, returned, exited
    panicked,      \* the process died of a run-time panic
    tickC,         \* ticks buffered in ticker.C (capacity 1)
    remaining,     \* networks checkProposals still has to visit in this cycle
    curNet,        \* network whose proposals are being checked, 0 if none
    queue,         \* proposals of curNet still to be checked
    fetched,       \* per network, the outcome of this cycle's fetch
    returned,      \* what GetVotingProposals returned for the last network fetched
    evaluated,     \* the calls of checkProposal made for that network
    lastCheck,     \* the last call of checkProposal
    handed,        \* messages given to the notifier by the last operation that sent
    startupSent,   \* startup messages given to the notifier
    cycles,        \* evaluation cycles started
    running,       \* evaluation cycles in progress
    cycleErr,      \* a fetch or a send failed in this cycle
    prevCycleErr   \* a fetch or a send failed in the cycle before

vars == <<config, endpoint, slackLog, pc, runResult, ctxCancelled, stopChan, stopCalls, mainPc, panicked, tickC,
          remaining, curNet, queue, fetched, returned, evaluated, lastCheck, handed,
          startupSent, cycles, running, cycleErr, prevCycleErr>>

envVars   == <<ctxCancelled, stopChan, stopCalls, mainPc>>
cycleVars == <<remaining, curNet, queue, fetched, returned, evaluated, cycles, running,
               cycleErr, prevCycleErr>>

NoCheck == [valid |-> FALSE]

\* The process is alive: no goroutine has panicked and main has not returned
\* to the runtime, which ends the process with every goroutine in it.
Alive == ~panicked /\ mainPc # "exited"

NoPost == [sent |-> FALSE]

\* The answer of an endpoint that is not held fixed: each request draws its own.
AnyAnswer == <<"any">>

\* The state NewService leaves, for a configuration out of cfgs and an
\* endpoint behaving as one of answers.
InitWith(cfgs, answers) ==
    /\ config \in cfgs
    /\ endpoint \in answers
    /\ slackLog = NoPost
    /\ pc = "idle"
    /\ runResult = "none"
    /\ ctxCancelled = FALSE
    /\ stopChan = "open"
    /\ stopCalls = 0
    /\ mainPc = "wait"
    /\ panicked = FALSE
    /\ tickC = 0
    /\ remaining = {}
    /\ curNet = 0
    /\ queue = <<>>
    /\ fetched = [k \in DOMAIN config.Networks |-> "none"]
    /\ returned = <<>>
    /\ evaluated = <<>>
    /\ lastCheck = NoCheck
    /\ handed = <<>>
    /\ startupSent = 0
    /\ cycles = 0
    /\ running = 0
    /\ cycleErr = FALSE
    /\ prevCycleErr = FALSE

\* ----------------------------------------------------------------------- Run
\* Run up to the creation of the ticker: the startup notification, whose
\* error is only logged.
RunStart ==
    /\ Alive /\ pc = "idle"
    /\ \E tg \in Outcome, sl \in Outcome :
          LET r == IF config.NotifyOnStartup
                   THEN sendStartupNotification(config, tg, sl)
                   ELSE [panic |-> FALSE, sent |-> <<>>]
          IN  /\ panicked' = r.panic
              /\ pc' = IF r.panic THEN pc ELSE "initial"
              /\ handed' = IF config.NotifyOnStartup THEN r.sent ELSE handed
              /\ startupSent' = startupSent + Len(r.sent)
    /\ UNCHANGED <<config, endpoint, slackLog, runResult, envVars, tickC, cycleVars, lastCheck>>

\* Entry of checkProposals: the range over s.clients starts.
BeginCheckProposals ==
    /\ pc' = "cycle"
    /\ remaining' = DOMAIN config.Networks
    /\ curNet' = 0
    /\ queue' = <<>>
    /\ fetched' = [k \in DOMAIN config.Networks |-> "none"]
    /\ returned' = <<>>
    /\ evaluated' = <<>>
    /\ cycles' = cycles + 1
    /\ running' = running + 1
    /\ prevCycleErr' = cycleErr
    /\ cycleErr' = FALSE

\* Run looking at the stop signals before its initial check.
InitialCheckUnlessStopped ==
    /\ Alive /\ pc = "initial"
    /\ IF ctxCancelled \/ stopChan = "closed"
       THEN /\ pc' = "returned"
            /\ runResult' = IF ctxCancelled THEN "ctxErr" ELSE "nil"
            /\ UNCHANGED cycleVars
       ELSE /\ BeginCheckProposals
            /\ UNCHANGED runResult
    /\ UNCHANGED <<config, endpoint, slackLog, envVars, panicked, tickC, lastCheck, handed,
                   startupSent>>

\* Run: the initial check, made before the loop is entered.
InitialCheck ==
    /\ Alive /\ pc = "initial"
    /\ BeginCheckProposals
    /\ UNCHANGED <<config, endpoint, slackLog, runResult, envVars, panicked, tickC, lastCheck, handed, startupSent>>

\* A tick handled without waiting for the cycle in progress.
SelectTickerConcurrent ==
    /\ Alive /\ pc \in {"select", "cycle"}
    /\ tickC = 1
    /\ tickC' = 0
    /\ BeginCheckProposals
    /\ UNCHANGED <<config, endpoint, slackLog, runResult, envVars, panicked, lastCheck, handed, startupSent>>

\* Run: select takes the case <-ticker.C.
SelectTicker ==
    /\ Alive /\ pc = "select"
    /\ tickC = 1
    /\ tickC' = 0
    /\ BeginCheckProposals
    /\ UNCHANGED <<config, endpoint, slackLog, runResult, envVars, panicked, lastCheck, handed, startupSent>>

\* Run: select takes the case <-ctx.Done().
SelectCtxDone ==
    /\ Alive /\ pc = "select"
    /\ ctxCancelled
    /\ pc' = "returned"
    /\ runResult' = "ctxErr"
    /\ UNCHANGED <<config, endpoint, slackLog, envVars, panicked, tickC, cycleVars, lastCheck, handed, startupSent>>

\* Run: select takes the case <-s.stopChan.
SelectStopChan ==
    /\ Alive /\ pc = "select"
    /\ stopChan = "closed"
    /\ pc' = "returned"
    /\ runResult' = "nil"
    /\ UNCHANGED <<config, endpoint, slackLog, envVars, panicked, tickC, cycleVars, lastCheck, handed, startupSent>>

\* checkProposals returning at the first network whose check fails.
NextNetworksAbort(rem, k, err) == IF err THEN {} ELSE rem \ {k}

\* checkNetworkProposals returning at the first proposal whose check fails.
NextProposalsAbort(q, err) == IF err # "nil" THEN <<>> ELSE Tail(q)

\* checkProposals fetching a network again when its check failed.
NextNetworksRetry(rem, k, err) == IF err THEN rem ELSE rem \ {k}

\* checkProposals: what is left of the range over s.clients after network k
\* was checked; the error of checkNetworkProposals is only logged.
NextNetworks(rem, k, err) == rem \ {k}

\* checkNetworkProposals: what is left of the range over proposals after
\* the head was checked; the error of checkProposal is only logged.
NextProposals(q, err) == Tail(q)

\* checkNetworkProposals for network k, up to the loop over the proposals,
\* with the endpoint's answer out of resps.  A request made with a cancelled
\* context fails.
CheckNetworkProposals(k, resps) ==
    /\ Alive /\ pc = "cycle"
    /\ curNet = 0
    /\ k \in remaining
    /\ \E resp \in resps :
          /\ ctxCancelled => resp[1] = "error"
          /\ LET r == GetVotingProposals(config.Networks[k], resp)
             IN  /\ fetched' = [fetched EXCEPT ![k] = IF r.err THEN "err" ELSE "ok"]
                 /\ returned' = r.proposals
                 /\ queue' = r.proposals
                 /\ curNet' = IF r.proposals = <<>> THEN 0 ELSE k
                 /\ remaining' = NextNetworks(remaining, k, r.err)
                 /\ cycleErr' = (cycleErr \/ r.err)
    /\ evaluated' = <<>>
    /\ UNCHANGED <<config, endpoint, slackLog, pc, runResult, envVars, panicked, tickC, lastCheck, handed,
                   startupSent, cycles, running, prevCycleErr>>

\* One iteration of the loop of checkNetworkProposals: checkProposal on the
\* next proposal, with the wall clock reading some instant of clock.
CheckProposal(clock) ==
    /\ Alive /\ pc = "cycle"
    /\ curNet # 0
    /\ queue # <<>>
    /\ \E now \in clock, o \in [start : Outcome \X Outcome, end : Outcome \X Outcome] :
          LET p == Head(queue)
              r == checkProposal(config, p, config.Networks[curNet], now, o)
              q == NextProposals(queue, r.err)
          IN  /\ handed' = r.sent
              /\ lastCheck' = [valid |-> TRUE, p |-> p, net |-> curNet, now |-> now,
                               err |-> r.err]
              /\ evaluated' = Append(evaluated, [p |-> p, err |-> r.err])
              /\ queue' = q
              /\ curNet' = IF q = <<>> THEN 0 ELSE curNet
              /\ cycleErr' = (cycleErr \/ r.err # "nil")
    /\ UNCHANGED <<config, endpoint, slackLog, pc, runResult, envVars, panicked, tickC, remaining, fetched,
                   returned, startupSent, cycles, running, prevCycleErr>>

\* Run returning when checkProposals met an error.
EndCheckProposalsFatal ==
    /\ Alive /\ pc = "cycle"
    /\ remaining = {}
    /\ curNet = 0
    /\ pc' = IF cycleErr THEN "returned" ELSE "select"
    /\ running' = running - 1
    /\ UNCHANGED <<config, endpoint, slackLog, runResult, envVars, panicked, tickC, remaining, curNet, queue,
                   fetched, returned, evaluated, cycles, cycleErr, prevCycleErr,
                   lastCheck, handed, startupSent>>

\* checkProposals returns (always nil) and Run goes to its select.
EndCheckProposals ==
    /\ Alive /\ pc = "cycle"
    /\ remaining = {}
    /\ curNet = 0
    /\ pc' = "select"
    /\ running' = running - 1
    /\ UNCHANGED <<config, endpoint, slackLog, runResult, envVars, panicked, tickC, remaining, curNet, queue,
                   fetched, returned, evaluated, cycles, cycleErr, prevCycleErr,
                   lastCheck, handed, startupSent>>

\* --------------------------------------------------------------- environment
\* close(s.stopChan): closing a closed channel panics.
closeChan(ch) ==
    IF ch = "open" THEN [ch |-> "closed", panic |-> FALSE]
                   ELSE [ch |-> "closed", panic |-> TRUE]

\* Service.Stop, from any goroutine, at any time.
Stop ==
    /\ Alive
    /\ stopCalls < MaxStopCalls
    /\ stopCalls' = stopCalls + 1
    /\ stopChan' = closeChan(stopChan).ch
    /\ panicked' = closeChan(stopChan).panic
    /\ UNCHANGED <<config, endpoint, slackLog, pc, runResult, ctxCancelled, mainPc, tickC, cycleVars, lastCheck,
                   handed, startupSent>>

\* The owner of the context cancels it.
Cancel ==
    /\ Alive
    /\ ~ctxCancelled
    /\ ctxCancelled' = TRUE
    /\ UNCHANGED <<config, endpoint, slackLog, pc, runResult, stopChan, stopCalls, mainPc, panicked, tickC,
                   cycleVars, lastCheck, handed, startupSent>>

\* The ticker fires: the tick is buffered, or dropped when one is buffered
\* already.  The ticker exists from its creation in Run until Run returns.
Tick ==
    /\ Alive
    /\ pc \in {"initial", "cycle", "select"}
    /\ cycles < MaxCycles
    /\ tickC' = 1
    /\ UNCHANGED <<config, endpoint, slackLog, pc, runResult, envVars, panicked, cycleVars, lastCheck, handed,
                   startupSent>>

\* ------------------------------------------------------------------ webhook
\* One call of sendSlackNotification by a notifier with Slack enabled.
SlackPost ==
    /\ Alive
    /\ config.Slack
    /\ \E resp \in SlackResponses :
          slackLog' = [sent |-> TRUE, resp |-> resp, err |-> sendSlackNotification(resp)]
    /\ UNCHANGED <<config, endpoint, pc, runResult, envVars, panicked, tickC, cycleVars,
                   lastCheck, handed, startupSent>>

\* Stop called before the goroutine of Run has entered Run.
StopBeforeRun == pc = "idle" /\ Stop

\* The context cancelled before Run is entered.
CancelBeforeRun == pc = "idle" /\ Cancel

\* ---------------------------------------------------------------------- main
\* main's run after the signal: svc.Stop().
MainStop ==
    /\ Alive
    /\ mainPc = "wait"
    /\ mainPc' = "stopped"
    /\ stopCalls' = stopCalls + 1
    /\ stopChan' = closeChan(stopChan).ch
    /\ panicked' = closeChan(stopChan).panic
    /\ UNCHANGED <<config, endpoint, slackLog, pc, runResult, ctxCancelled, tickC, cycleVars, lastCheck,
                   handed, startupSent>>

\* main's run returns nil without waiting for the goroutine of Run; the
\* deferred cancel() runs on the way out.
MainReturn ==
    /\ Alive
    /\ mainPc = "stopped"
    /\ mainPc' = "returned"
    /\ ctxCancelled' = TRUE
    /\ UNCHANGED <<config, endpoint, slackLog, pc, runResult, stopChan, stopCalls, panicked, tickC, cycleVars,
                   lastCheck, handed, startupSent>>

\* main returns: the process exits, whatever its goroutines are doing.
MainExit ==
    /\ Alive
    /\ mainPc = "returned"
    /\ mainPc' = "exited"
    /\ UNCHANGED <<config, endpoint, slackLog, pc, runResult, ctxCancelled, stopChan, stopCalls, panicked, tickC,
                   cycleVars, lastCheck, handed, startupSent>>

\* ------------------------------------------------------------ specifications
\* The life cycle of Run: every operation, MaxNetworks networks, the first
\* of which may bear the service's own name, Telegram the only channel.
LifeConfigs ==
    {c \in Configs : /\ DOMAIN c.Networks = NetKeys
                     /\ \A k \in NetKeys \ {1} : c.Networks[k].Name = NetworkNames[k]
                     /\ c.HoursBeforeStart = 1
                     /\ c.HoursBeforeEnd = MaxHours
                     /\ c.Telegram /\ ~c.Slack}

Init == InitWith(LifeConfigs, {AnyAnswer})

Next ==
    \/ RunStart
    \/ InitialCheck
    \/ SelectTicker
    \/ SelectCtxDone
    \/ SelectStopChan
    \/ \E k \in NetKeys : CheckNetworkProposals(k, ResponsesOf(LifeProposals, 1))
    \/ CheckProposal(LoopClock)
    \/ EndCheckProposals
    \/ Stop
    \/ Cancel
    \/ Tick

Spec == Init /\ [][Next]_vars

\* The life cycle of Run under the scheduling Go gives it: a goroutine that
\* can take a step eventually takes it (weak fairness on the steps of Run),
\* and select chooses at random among its ready cases, so a case that is
\* ready again and again is eventually chosen (strong fairness on the cases).
Fairness ==
    /\ WF_vars(RunStart)
    /\ WF_vars(InitialCheck)
    /\ WF_vars(\E k \in NetKeys : CheckNetworkProposals(k, ResponsesOf(LifeProposals, 1)))
    /\ WF_vars(CheckProposal(LoopClock))
    /\ WF_vars(EndCheckProposals)
    /\ SF_vars(SelectTicker)
    /\ SF_vars(SelectCtxDone)
    /\ SF_vars(SelectStopChan)

SpecLive == Init /\ [][Next]_vars /\ Fairness

\* The command-line program: main starts Run in a goroutine with a context
\* nobody cancels before run returns, waits for a signal, calls Stop once
\* and returns.
InitMain == InitWith(LifeConfigs, {AnyAnswer})

NextMain ==
    \/ RunStart
    \/ InitialCheck
    \/ SelectTicker
    \/ SelectCtxDone
    \/ SelectStopChan
    \/ \E k \in NetKeys : CheckNetworkProposals(k, ResponsesOf(LifeProposals, 1))
    \/ CheckProposal(LoopClock)
    \/ EndCheckProposals
    \/ Tick
    \/ MainStop
    \/ MainReturn
    \/ MainExit

SpecMain == InitMain /\ [][NextMain]_vars

\* Whole cycles without stop or cancellation: MaxNetworks networks under
\* their own names, Telegram the only channel.
CycleConfigs ==
    {c \in Configs : /\ DOMAIN c.Networks = NetKeys
                     /\ \A k \in NetKeys : c.Networks[k].Name = NetworkNames[k]
                     /\ c.HoursBeforeStart = 1
                     /\ c.HoursBeforeEnd = MaxHours
                     /\ ~c.NotifyOnStartup
                     /\ c.Telegram /\ ~c.Slack}

InitCycle == InitWith(CycleConfigs, {AnyAnswer})

NextCycle ==
    \/ RunStart
    \/ InitialCheck
    \/ SelectTicker
    \/ \E k \in NetKeys : CheckNetworkProposals(k, ResponsesOf(CycleProposals, MaxProps))
    \/ CheckProposal(LoopClock)
    \/ EndCheckProposals
    \/ Tick

SpecCycle == InitCycle /\ [][NextCycle]_vars

\* The client's filter: one network whose endpoint gives the same answer to
\* every request of the run, Telegram the only channel.
FetchConfigs ==
    {c \in Configs : /\ DOMAIN c.Networks = {1}
                     /\ c.Networks[1].Name = NetworkNames[1]
                     /\ c.HoursBeforeStart = 1
                     /\ c.HoursBeforeEnd = MaxHours
                     /\ ~c.NotifyOnStartup
                     /\ c.Telegram /\ ~c.Slack}

InitFetch == InitWith(FetchConfigs, ResponsesOf(FetchProposals, MaxProps))

NextFetch ==
    \/ RunStart
    \/ InitialCheck
    \/ SelectTicker
    \/ CheckNetworkProposals(1, {endpoint})
    \/ CheckProposal(LoopClock)
    \/ EndCheckProposals
    \/ Tick

SpecFetch == InitFetch /\ [][NextFetch]_vars

\* A network with nothing to vote on beside others: the first network's
\* endpoint gives the same answer to every request of the run, the other
\* networks' endpoints answer each request as they like.
InitQuiet == InitWith(CycleConfigs, ResponsesOf(QuietProposals, MaxProps))

NextQuiet ==
    \/ RunStart
    \/ InitialCheck
    \/ SelectTicker
    \/ CheckNetworkProposals(1, {endpoint})
    \/ \E k \in NetKeys \ {1} : CheckNetworkProposals(k, ResponsesOf(LifeProposals, 1))
    \/ CheckProposal(LoopClock)
    \/ EndCheckProposals
    \/ Tick

SpecQuiet == InitQuiet /\ [][NextQuiet]_vars

\* Run entered late: Stop is called, or the context cancelled, only before
\* Run is entered.
InitEarly == InitWith(LifeConfigs, {AnyAnswer})

NextEarly ==
    \/ StopBeforeRun
    \/ CancelBeforeRun
    \/ RunStart
    \/ InitialCheck
    \/ SelectTicker
    \/ SelectCtxDone
    \/ SelectStopChan
    \/ \E k \in NetKeys : CheckNetworkProposals(k, ResponsesOf(LifeProposals, 1))
    \/ CheckProposal(LoopClock)
    \/ EndCheckProposals
    \/ Tick

SpecEarly == InitEarly /\ [][NextEarly]_vars

\* The service built by a caller of NewService, which accepts every
\* configuration it is given (it validates nothing): any set of networks,
\* under their own names, Telegram the only channel.
NewServiceConfigs ==
    {c \in AnyConfigs : /\ \A k \in DOMAIN c.Networks : c.Networks[k].Name = NetworkNames[k]
                        /\ c.HoursBeforeStart = 1
                        /\ c.HoursBeforeEnd = MaxHours
                        /\ c.Telegram /\ ~c.Slack}

InitNew == InitWith(NewServiceConfigs, {AnyAnswer})

NextNew ==
    \/ RunStart
    \/ InitialCheck
    \/ \E k \in NetKeys : CheckNetworkProposals(k, ResponsesOf(LifeProposals, 1))
    \/ CheckProposal(LoopClock)
    \/ EndCheckProposals

SpecNew == InitNew /\ [][NextNew]_vars

\* The webhook channel alone: every answer of the webhook to a notifier
\* with Slack enabled.
SlackConfigs ==
    {c \in Configs : /\ DOMAIN c.Networks = {1}
                     /\ c.Networks[1].Name = NetworkNames[1]
                     /\ c.HoursBeforeStart = 1
                     /\ c.HoursBeforeEnd = 1
                     /\ c.Slack}

InitSlack == InitWith(SlackConfigs, {AnyAnswer})

NextSlack == SlackPost

SpecSlack == InitSlack /\ [][NextSlack]_vars

\* The first cycle of a service with one network: every pair of thresholds,
\* every combination of channels, every pair of boundaries.
EvalConfigs ==
    {c \in Configs : /\ DOMAIN c.Networks = {1}
                     /\ c.Networks[1].Name = NetworkNames[1]}

InitEval == InitWith(EvalConfigs, {AnyAnswer})

NextEval ==
    \/ RunStart
    \/ InitialCheck
    \/ CheckNetworkProposals(1, ResponsesOf(EvalProposals, 1))
    \/ CheckProposal(Clock)
    \/ EndCheckProposals

SpecEval == InitEval /\ [][NextEval]_vars

\* -------------------------------------------------------------------- claims
Handed == {handed[i] : i \in DOMAIN handed}

Enabled(b) == IF b THEN 1 ELSE 0

\* C1: every message handed to SendNotification has each enabled channel's
\* send attempted exactly once (and a disabled channel's never), whatever
\* the outcome of the other channel.
C1_EachEnabledChannelAttemptedOnce ==
    \A h \in Handed :
        /\ h.res.attempts.telegram = Enabled(config.Telegram)
        /\ h.res.attempts.slack = Enabled(config.Slack)

\* A message whose Telegram send failed and whose Slack send was attempted.
C1_Witness ==
    \E h \in Handed :
        /\ "telegram" \in h.res.failed
        /\ h.res.attempts.slack = 1
        /\ h.res.attempts.telegram = 1

CycleOver == pc = "select" \/ (pc = "cycle" /\ remaining = {} /\ curNet = 0)

EvaluatedProposals == [i \in DOMAIN evaluated |-> evaluated[i].p]

\* C2: when a cycle is over every configured network was fetched in it,
\* whatever the other fetches gave; and a network fetched after another
\* one's failure has every proposal of its list checked.
C2_EveryNetworkFetched ==
    /\ CycleOver => \A k \in DOMAIN config.Networks : fetched[k] # "none"
    /\ (pc = "cycle" /\ curNet = 0 /\ \E a \in DOMAIN fetched : fetched[a] = "err")
          => Len(evaluated) = Len(returned)

\* A finished first cycle in which one network's fetch failed and a network
\* fetched after it had its proposal checked and an alert handed over.
C2_Witness ==
    /\ pc = "select" /\ cycles = 1
    /\ \E a \in DOMAIN fetched : fetched[a] = "err"
    /\ returned # <<>>
    /\ lastCheck.valid /\ fetched[lastCheck.net] = "ok"
    /\ handed # <<>>

\* C3: every proposal the fetch returned is checked, in order, whatever the
\* sends for the earlier proposals of the list gave.
C3_EveryProposalEvaluated ==
    /\ pc \in {"cycle", "select"} => EvaluatedProposals \o queue = returned
    /\ (pc \in {"cycle", "select"} /\ curNet = 0) => queue = <<>>

\* A list of two proposals: the send for the first failed, the second was
\* checked and its alert handed over.
C3_Witness ==
    /\ Len(evaluated) = 2 /\ Len(returned) = 2
    /\ evaluated[1].err # "nil"
    /\ evaluated[2].err = "nil"
    /\ handed # <<>>

\* The two alerts as the specification defines them, for the last check.
StartDue ==
    /\ lastCheck.p.VotingStart > lastCheck.now
    /\ 0 < lastCheck.p.VotingStart - lastCheck.now
    /\ lastCheck.p.VotingStart - lastCheck.now <= config.HoursBeforeStart * UnitsPerHour

EndDue ==
    /\ lastCheck.p.VotingEnd > lastCheck.now
    /\ 0 < lastCheck.p.VotingEnd - lastCheck.now
    /\ lastCheck.p.VotingEnd - lastCheck.now <= config.HoursBeforeEnd * UnitsPerHour

HandedFor(kind) ==
    \E h \in Handed : /\ h.msg.Kind = kind
                      /\ h.msg.ProposalID = lastCheck.p.ID

\* C4: when both alerts are due for the proposal checked, both are handed
\* to the notifier, whatever the delivery of the start alert gave.
C4_BothDueBothHanded ==
    (lastCheck.valid /\ StartDue /\ EndDue) => (HandedFor("start") /\ HandedFor("end"))

\* C5: checkProposal hands a start alert to the notifier exactly when the
\* start lies ahead by more than zero and at most hoursBeforeStart hours.
C5_StartAlertIffDue ==
    lastCheck.valid => (HandedFor("start") <=> StartDue)

\* A start exactly hoursBeforeStart hours away, and its alert handed over.
C5_Witness ==
    /\ lastCheck.valid
    /\ lastCheck.p.VotingStart - lastCheck.now = config.HoursBeforeStart * UnitsPerHour
    /\ HandedFor("start")

\* C6: checkProposal hands an end alert to the notifier exactly when the end
\* lies ahead by more than zero and at most hoursBeforeEnd hours, whether or
\* not a start alert is due.
C6_EndAlertIffDue ==
    lastCheck.valid => (HandedFor("end") <=> EndDue)

\* C7: no call of Stop faults.
C7_StopNeverFaults == ~panicked

Running == {"initial", "cycle", "select"}

\* C8: Run leaves its running states only by returning, and only when the
\* context is cancelled or Stop was called; a cycle, failed or not, ends in
\* the select of the loop, where a pending tick starts the next cycle.
C8_OnlyStopOrCancelEndsLoop ==
    [][/\ (pc \in Running /\ pc' \notin Running)
            => (pc = "select" /\ pc' = "returned" /\ (ctxCancelled \/ stopChan = "closed"))
       /\ (pc = "cycle" /\ pc' # "cycle") => pc' = "select"
       /\ (pc = "select" /\ pc' = "cycle") => cycles' = cycles + 1]_vars

\* A second cycle, started after a cycle in which a fetch or a send failed.
C8_Witness ==
    /\ pc = "cycle" /\ cycles = 2
    /\ prevCycleErr
    /\ ~ctxCancelled /\ stopChan = "open"

\* C9: once Run has started, exactly one startup message was handed over if
\* notifyOnStartup is set and none otherwise, before the first cycle; and a
\* message whose network field is the service's name is that message only.
C9_OneServiceMessage ==
    /\ pc # "idle" => startupSent = Enabled(config.NotifyOnStartup)
    /\ pc = "idle" => (startupSent = 0 /\ cycles = 0)
    /\ \A h \in Handed : h.msg.Network = ServiceName
                             => (config.NotifyOnStartup /\ h.msg.Kind = "startup")

\* C10: a cycle starts only as the initial check or by taking one buffered
\* tick; at most one cycle is in progress; a tick that arrives during a
\* cycle stays buffered until the cycle is over.
C10_CyclesNeverOverlap ==
    [][/\ cycles' # cycles
            => /\ cycles' = cycles + 1
               /\ pc = "initial" \/ (pc = "select" /\ tickC = 1 /\ tickC' = 0)
       /\ (pc = "initial" /\ pc' # "initial") => (pc' = "cycle" /\ cycles' = 1)
       /\ (pc = "select" /\ tickC = 1 /\ tickC' = 0) => cycles' = cycles + 1
       /\ running' <= 1
       /\ (pc = "cycle" /\ tickC' # tickC) => (tickC' = 1 /\ pc' = "cycle" /\ cycles' = cycles)]_vars

\* A tick buffered while the first cycle is in progress.
C10_Witness == pc = "cycle" /\ running = 1 /\ tickC = 1 /\ cycles = 1

StopRequested == ctxCancelled \/ stopChan = "closed"

\* C11: once the context is cancelled or Stop was called, Run eventually
\* returns, given that every step of a cycle in progress is eventually
\* taken, and also while ticks arrive.
C11_RunEventuallyReturns == StopRequested ~> (pc = "returned")

\* C12: when the stop operation of the command-line program is complete
\* (Stop was called and main's run has returned), no cycle of Run is in
\* progress, so none is cut short by the end of the process.
C12_NothingInFlightAfterStop ==
    mainPc \in {"returned", "exited"} => pc # "cycle"

\* C13: when the context is cancelled or Stop was called while a cycle is
\* in progress, no further cycle is started: Run returns from the select
\* that follows the cycle, also with a tick pending.
C13_NoCycleAfterStopDuringCycle ==
    \A n \in 1..MaxCycles :
        []((pc = "cycle" /\ ~StopRequested /\ cycles = n)
              => []((pc = "cycle" /\ StopRequested /\ cycles = n) => [](cycles = n)))

\* The proposals of the endpoint's answer, in source order.
RawBatch == IF endpoint[1] = "ok" THEN endpoint[2] ELSE <<>>

VotingRaw == {j \in DOMAIN RawBatch : RawBatch[j].Status = VotingPeriod}

ProposalAlerts == {h \in Handed : h.msg.Kind \in {"start", "end"}}

\* C14: what GetVotingProposals returns are proposals the endpoint gave with
\* the voting-period status, no more of them than the endpoint gave, and
\* every alert is for one of those.
C14_OnlyVotingPeriodReturned ==
    /\ fetched[1] = "ok"
          => /\ \A i \in DOMAIN returned :
                   /\ returned[i].Status = VotingPeriod
                   /\ \E j \in VotingRaw :
                         /\ Sscanf(RawBatch[j].ID).v = returned[i].ID
                         /\ ParseTime(RawBatch[j].VotingStart).t = returned[i].VotingStart
                         /\ ParseTime(RawBatch[j].VotingEnd).t = returned[i].VotingEnd
             /\ Len(returned) <= Cardinality(VotingRaw)
    /\ \A h \in ProposalAlerts :
          \E j \in VotingRaw : Sscanf(RawBatch[j].ID).v = h.msg.ProposalID

\* A proposal that has passed, with both boundaries inside the thresholds,
\* ahead of a voting-period proposal: only the second was returned, and an
\* alert was handed over for it.
C14_Witness ==
    /\ fetched[1] = "ok"
    /\ Len(RawBatch) = 2
    /\ RawBatch[1].Status # VotingPeriod
    /\ Len(returned) = 1
    /\ lastCheck.valid /\ lastCheck.p = returned[1]
    /\ ProposalAlerts # {}

\* An id that is a decimal number: digits only, at least one.
NumericID(id) == id # <<>> /\ \A i \in DOMAIN id : id[i] \in Digits

WellFormedRaw(r) ==
    /\ r.Status = VotingPeriod
    /\ ParseTime(r.VotingStart).ok
    /\ ParseTime(r.VotingEnd).ok
    /\ NumericID(r.ID)

WellFormedSiblings == SelectSeq(RawBatch, WellFormedRaw)

\* C15: an answer of the endpoint with voting-period proposals whose start
\* or end does not parse or whose id is not a number gives no error, and
\* what is returned are exactly its well-formed voting-period proposals, in
\* source order.
C15_MalformedSkippedSiblingsKept ==
    (fetched[1] # "none" /\ endpoint[1] = "ok")
        => /\ fetched[1] = "ok"
           /\ Len(returned) = Len(WellFormedSiblings)
           /\ \A i \in DOMAIN returned :
                 /\ returned[i].ID = ParseUint(WellFormedSiblings[i].ID, 0)
                 /\ returned[i].VotingStart = WellFormedSiblings[i].VotingStart[2]
                 /\ returned[i].VotingEnd = WellFormedSiblings[i].VotingEnd[2]

\* C16: the webhook channel returns no error for every response with a
\* status from 200 to 299, and an error for every response with any other
\* status.
C16_WebhookSuccessIff2xx ==
    (slackLog.sent /\ slackLog.resp[1] = "status")
        => (slackLog.err = "nil" <=> slackLog.resp[2] \in 200..299)

\* The alert of a kind is due for proposal p at clock reading now.
DueAt(kind, p, now) ==
    IF kind = "start"
    THEN 0 < p.VotingStart - now /\ p.VotingStart - now <= config.HoursBeforeStart * UnitsPerHour
    ELSE 0 < p.VotingEnd - now /\ p.VotingEnd - now <= config.HoursBeforeEnd * UnitsPerHour

KindIn(sent, kind) == \E i \in DOMAIN sent : sent[i].msg.Kind = kind

\* C17: a proposal whose alert was due and handed over in one cycle, and
\* which the next cycle finds unchanged with the alert due again, has the
\* alert handed over again in that cycle, whatever the deliveries gave.
C17_SameAlertInNextCycle ==
    [][\A kind \in {"start", "end"} :
          (/\ pc = "cycle" /\ cycles >= 2
           /\ evaluated = <<>> /\ evaluated' # <<>>
           /\ lastCheck.valid /\ lastCheck.p = lastCheck'.p
           /\ DueAt(kind, lastCheck.p, lastCheck.now) /\ KindIn(handed, kind)
           /\ DueAt(kind, lastCheck'.p, lastCheck'.now))
              => KindIn(handed', kind)]_vars

\* C18: within one cycle a network that was fetched is not fetched again,
\* whatever its fetch gave; a proposal returned is checked at most once;
\* a check hands over at most one alert of each kind, and each alert has at
\* most one attempt on each channel, also when an attempt failed.
C18_NothingRetriedInCycle ==
    [][/\ cycles' = cycles
            => \A k \in DOMAIN fetched : fetched[k] # "none" => fetched'[k] = fetched[k]
       /\ Len(evaluated') + Len(queue') <= Len(returned')
       /\ \A i, j \in DOMAIN handed' :
             handed'[i].msg.Kind = handed'[j].msg.Kind => i = j
       /\ \A i \in DOMAIN handed' :
             /\ handed'[i].res.attempts.telegram <= 1
             /\ handed'[i].res.attempts.slack <= 1]_vars

\* The second cycle is over: in the cycle before it a fetch or a send had
\* failed; in this one a network's fetch failed, the other network was
\* fetched, and the send of an alert failed after its single attempt.
C18_Witness ==
    /\ pc = "select" /\ cycles = 2
    /\ prevCycleErr
    /\ \E a, b \in DOMAIN fetched : fetched[a] = "err" /\ fetched[b] = "ok"
    /\ \E i \in DOMAIN handed :
          /\ "telegram" \in handed[i].res.failed
          /\ handed[i].res.attempts.telegram = 1

EnabledChannels ==
    (IF config.Telegram THEN {"telegram"} ELSE {}) \cup (IF config.Slack THEN {"slack"} ELSE {})

\* C19: SendNotification returns an error exactly when the send of an
\* enabled channel failed: Telegram's error if Telegram failed, otherwise
\* Slack's; and nil when no send failed.
C19_FirstErrorReturned ==
    \A h \in Handed :
        /\ h.res.failed \subseteq EnabledChannels
        /\ h.res.err = "nil" <=> h.res.failed = {}
        /\ "telegram" \in h.res.failed => h.res.err = "telegram"
        /\ h.res.failed = {"slack"} => h.res.err = "slack"

\* An alert whose sends failed on both channels: Telegram's error came back.
C19_Witness ==
    \E h \in ProposalAlerts :
        /\ h.res.failed = {"telegram", "slack"}
        /\ h.res.err = "telegram"

\* C20: every alert handed over for the proposal just checked carries the
\* display name and the chain id of the network that proposal was fetched
\* from and the proposal's id, and never the name or the chain id of another
\* configured network.
C20_AlertNamesItsOwnNetwork ==
    lastCheck.valid
        => /\ lastCheck.p.Network = config.Networks[lastCheck.net].Name
           /\ \A h \in ProposalAlerts :
                 /\ h.msg.Network = config.Networks[lastCheck.net].Name
                 /\ h.msg.ChainID = config.Networks[lastCheck.net].ChainID
                 /\ h.msg.ProposalID = lastCheck.p.ID
                 /\ \A k \in DOMAIN config.Networks \ {lastCheck.net} :
                       /\ h.msg.Network # config.Networks[k].Name
                       /\ h.msg.ChainID # config.Networks[k].ChainID

\* Both networks answered with proposals, and an alert was handed over for
\* a proposal of the second one.
C20_Witness ==
    /\ lastCheck.valid /\ lastCheck.net = 2
    /\ fetched[1] = "ok" /\ fetched[2] = "ok"
    /\ returned # <<>>
    /\ ProposalAlerts # {}

\* C21: the id of every proposal GetVotingProposals returns is the value of
\* the whole id string of a proposal of the answer read as a decimal
\* number, so a proposal whose id string is not digits only is not returned.
C21_IDIsWholeIdString ==
    fetched[1] = "ok"
        => \A i \in DOMAIN returned :
              \E j \in VotingRaw :
                  /\ NumericID(RawBatch[j].ID)
                  /\ ParseUint(RawBatch[j].ID, 0) = returned[i].ID

\* The first network's endpoint answers, with nothing in the voting period.
NothingToVoteOn == endpoint[1] = "ok" /\ VotingRaw = {}

\* C22: a network whose endpoint answers with nothing in the voting period
\* is fetched without an error and with an empty result; no proposal of it
\* is checked and no alert names it; the cycle goes on to the other
\* networks, and when it is over every network was fetched.
C22_EmptyResultIsNoError ==
    NothingToVoteOn
        => /\ fetched[1] # "err"
           /\ curNet # 1
           /\ lastCheck.valid => lastCheck.net # 1
           /\ \A h \in ProposalAlerts : h.msg.ChainID # config.Networks[1].ChainID
           /\ (fetched[1] = "ok" /\ \A k \in DOMAIN fetched \ {1} : fetched[k] = "none")
                 => /\ returned = <<>>
                    /\ ~cycleErr
                    /\ remaining = DOMAIN config.Networks \ {1}
           /\ CycleOver => \A k \in DOMAIN fetched : fetched[k] # "none"

\* The first network answered with proposals none of which is in the voting
\* period; the cycle is over without an error, and an alert was handed over
\* for a proposal of another network.
C22_Witness ==
    /\ NothingToVoteOn /\ RawBatch # <<>>
    /\ pc = "select" /\ ~cycleErr
    /\ fetched[1] = "ok"
    /\ lastCheck.valid /\ lastCheck.net # 1
    /\ ProposalAlerts # {}

\* C23: when Stop was called or the context cancelled before Run was
\* entered, Run does not return before it has handed over the startup
\* message (if notifyOnStartup is set) and has finished its initial cycle,
\* in which every network was fetched.
C23_EarlyStopKeepsStartupWork ==
    /\ (StopRequested /\ pc \in {"idle", "initial", "cycle"}) => runResult = "none"
    /\ (StopRequested /\ pc \in {"initial", "cycle", "select", "returned"})
          => startupSent = Enabled(config.NotifyOnStartup)
    /\ (StopRequested /\ pc \in {"select", "returned"})
          => /\ cycles >= 1 /\ running = 0
             /\ \A k \in DOMAIN fetched : fetched[k] # "none"

\* Stop was called before Run was entered; Run has returned after the
\* startup message and one cycle, in which an alert was handed over.
C23_Witness ==
    /\ pc = "returned" /\ runResult = "nil"
    /\ stopChan = "closed" /\ ~ctxCancelled
    /\ config.NotifyOnStartup /\ startupSent = 1
    /\ cycles = 1
    /\ ProposalAlerts # {}

\* C24: with no channel enabled every message handed to SendNotification
\* has no send attempted and comes back without an error, so checkProposal
\* reports no error and hands over the start alert and the end alert of the
\* proposal whenever each is due.
C24_NoChannelIsSuccess ==
    (~config.Telegram /\ ~config.Slack)
        => /\ \A h \in Handed :
                 /\ h.res.attempts.telegram = 0
                 /\ h.res.attempts.slack = 0
                 /\ h.res.failed = {}
                 /\ h.res.err = "nil"
           /\ lastCheck.valid
                 => /\ lastCheck.err = "nil"
                    /\ StartDue <=> HandedFor("start")
                    /\ EndDue <=> HandedFor("end")

\* No channel enabled, both alerts due for the proposal checked, and both
\* handed over.
C24_Witness ==
    /\ ~config.Telegram /\ ~config.Slack
    /\ lastCheck.valid /\ StartDue /\ EndDue
    /\ Len(handed) = 2
    /\ HandedFor("start") /\ HandedFor("end")

\* C25: for every configuration NewService accepts, one without networks
\* included, Run with notifyOnStartup set builds its startup message
\* without a fault.
C25_StartupMessageNeverFaults ==
    config.NotifyOnStartup => ~panicked

====
